---- MODULE Spec2Model ----
(***************************************************************************)
(* build_comments_csv of example_approach/1_cmv_scrape.py: the filter and  *)
(* cap on the thread dataset, the two passes over each thread's flattened  *)
(* comment list, and the global row budget.                                *)
(*                                                                         *)
(* A Python string is a sequence of one-character strings. None and NaN    *)
(* are two distinguished values of the same shape, so that an optional     *)
(* string stays comparable with a string. The pass-through columns of a    *)
(* row (score, permalink, created_utc, depth) are copied by the code       *)
(* without being read and are left out.                                    *)
(***************************************************************************)
EXTENDS Integers, Sequences, FiniteSets, TLC

(* ------------------------------ bounds --------------------------------- *)

\* threads in the thread dataset
MaxThreads == 2
\* comments in one thread's flattened list
MaxListLen == 2
\* comments on the whole site when several threads are scanned
MaxSiteComments == 3

(* ------------------------------ strings -------------------------------- *)

None == <<"<None>">>
NaN == <<"<NaN>">>

UpperChars == <<"A","B","C","D","E","F","G","H","I","J","K","L","M",
                "N","O","P","Q","R","S","T","U","V","W","X","Y","Z">>
LowerChars == <<"a","b","c","d","e","f","g","h","i","j","k","l","m",
                "n","o","p","q","r","s","t","u","v","w","x","y","z">>

\* the lower-case letter of every upper-case letter
ToLower ==
    [ch \in {UpperChars[k] : k \in 1..Len(UpperChars)} |->
        LowerChars[CHOOSE k \in 1..Len(UpperChars) : UpperChars[k] = ch]]

\* one character of str.lower()
LowerChar(ch) == IF ch \in DOMAIN ToLower THEN ToLower[ch] ELSE ch

\* str.lower()
Lower(s) == [k \in 1..Len(s) |-> LowerChar(s[k])]

\* str.startswith(p)
StartsWith(s, p) == Len(s) >= Len(p) /\ SubSeq(s, 1, Len(p)) = p

\* tok in t
Contains(t, tok) ==
    \E k \in 0..(Len(t) - Len(tok)) : SubSeq(t, k + 1, k + Len(tok)) = tok

\* s.split('_', 1)[1]: what follows the first underscore. Python raises
\* IndexError when s has no underscore; the CHOOSE is then undefined.
SplitTail(s) ==
    LET k == CHOOSE j \in 1..Len(s) :
                 s[j] = "_" /\ \A h \in 1..(j - 1) : s[h] # "_"
    IN SubSeq(s, k + 1, Len(s))

\* truth value of an optional string: None and '' are falsy
Truthy(x) == x # None /\ x # NaN /\ x # <<>>

\* x or ''
OrEmpty(x) == IF Truthy(x) THEN x ELSE <<>>

\* str(x) if x else None
StrOrNone(x) == IF Truthy(x) THEN x ELSE None

T1Prefix == <<"t","1","_">>
T3Prefix == <<"t","3","_">>
Deleted == <<"[","d","e","l","e","t","e","d","]">>

(* --------------------------- marker detector --------------------------- *)

DELTA_TOKENS ==
    << <<"U+2206">>,
       <<"U+2206">>,
       <<"!","d","e","l","t","a">>,
       <<"d","e","l","t","a"," ","a","w","a","r","d","e","d">>,
       <<"i"," ","a","w","a","r","d"," ","y","o","u"," ","a"," ",
         "d","e","l","t","a">>,
       <<"i"," ","a","w","a","r","d"," ","a"," ","d","e","l","t","a">>,
       <<"i","'","m"," ","a","w","a","r","d","i","n","g"," ","a"," ",
         "d","e","l","t","a">>,
       <<"i"," ","a","m"," ","a","w","a","r","d","i","n","g"," ","a"," ",
         "d","e","l","t","a">> >>

has_delta(text) ==
    IF ~Truthy(text) THEN FALSE
    ELSE LET t == Lower(text)
         IN \E k \in 1..Len(DELTA_TOKENS) : Contains(t, DELTA_TOKENS[k])

(* --------------------------- thread dataset ---------------------------- *)

\* subs['author'].notna() & (subs['author'].str.lower() != '[deleted]')
UsableAuthor(a) == a # NaN /\ Lower(a) # Deleted

RECURSIVE FilterSubs(_)
FilterSubs(s) ==
    IF s = <<>> THEN <<>>
    ELSE LET rest == FilterSubs(Tail(s))
         IN IF UsableAuthor(Head(s).author) THEN <<Head(s)>> \o rest ELSE rest

\* DataFrame.head(n): the first n rows; for a negative n all but the last -n
HeadRows(s, n) ==
    IF n >= 0 THEN SubSeq(s, 1, IF n < Len(s) THEN n ELSE Len(s))
    ELSE SubSeq(s, 1, IF Len(s) + n > 0 THEN Len(s) + n ELSE 0)

(* ----------------------------- classifier ------------------------------ *)

\* mutant: the acknowledging comment is recorded instead of its parent
Pass1Add_OwnId(awarded, c, op) ==
    LET c_body == OrEmpty(c.body)
        c_author == StrOrNone(c.author)
    IN IF c_author = op /\ has_delta(c_body)
       THEN LET parent_full == OrEmpty(c.parent_id)
            IN IF StartsWith(parent_full, T1Prefix)
               THEN awarded \cup {c.id}
               ELSE awarded
       ELSE awarded

\* mutant: any parent reference with an underscore is taken for a comment
Pass1Add_AnyPrefix(awarded, c, op) ==
    LET c_body == OrEmpty(c.body)
        c_author == StrOrNone(c.author)
    IN IF c_author = op /\ has_delta(c_body)
       THEN LET parent_full == OrEmpty(c.parent_id)
            IN IF Contains(parent_full, <<"_">>)
               THEN awarded \cup {SplitTail(parent_full)}
               ELSE awarded
       ELSE awarded

\* the body of the pass 1 loop for one comment c
Pass1Add(awarded, c, op) ==
    LET c_body == OrEmpty(c.body)
        c_author == StrOrNone(c.author)
    IN IF c_author = op /\ has_delta(c_body)
       THEN LET parent_full == OrEmpty(c.parent_id)
            IN IF StartsWith(parent_full, T1Prefix)
               THEN awarded \cup {SplitTail(parent_full)}
               ELSE awarded
       ELSE awarded

\* mutant: the OP test of a row ignores case
RowOf_IgnoreCase(c, sid, op, awarded) ==
    LET parent_full == OrEmpty(c.parent_id)
    IN [comment_id |-> c.id,
        post_id |-> sid,
        parent_comment_id |->
            IF StartsWith(parent_full, T1Prefix) THEN SplitTail(parent_full)
            ELSE None,
        author |-> StrOrNone(c.author),
        is_op |-> IF Truthy(c.author) THEN Lower(c.author) = Lower(op) ELSE FALSE,
        delta_awarded |-> c.id \in awarded,
        body |-> OrEmpty(c.body)]

\* the row pass 2 appends for comment c
RowOf(c, sid, op, awarded) ==
    LET parent_full == OrEmpty(c.parent_id)
    IN [comment_id |-> c.id,
        post_id |-> sid,
        parent_comment_id |->
            IF StartsWith(parent_full, T1Prefix) THEN SplitTail(parent_full)
            ELSE None,
        author |-> StrOrNone(c.author),
        is_op |-> IF Truthy(c.author) THEN c.author = op ELSE FALSE,
        delta_awarded |-> c.id \in awarded,
        body |-> OrEmpty(c.body)]

\* the awarded set after pass 1 has run over the first k comments of l
RECURSIVE PassOne(_, _, _)
PassOne(l, op, k) ==
    IF k = 0 THEN {}
    ELSE Pass1Add(PassOne(l, op, k - 1), l[k], op)

\* the rows of one thread when the row budget does not cut pass 2
ThreadRows(l, sid, op) ==
    LET awarded == PassOne(l, op, Len(l))
    IN [k \in 1..Len(l) |-> RowOf(l[k], sid, op, awarded)]

(* ------------------------------ inputs --------------------------------- *)

IdChars == <<"a","b","c","d","e","f">>
ThreadChars == <<"u","v","w","x","y","z">>
CommentId(k) == <<IdChars[k]>>
ThreadId(k) == <<ThreadChars[k]>>

OpName == <<"a","l">>
OtherName == <<"A","l">>
DeletedMixed == <<"[","D","e","l","e","t","e","d","]">>
MarkBody == <<"!","D","e","l","t","a">>
PlainBody == <<"d","e","l","t","a">>
\* an account reference: neither a comment reference nor a thread reference
Malformed == <<"t","2","_","a">>

\* the parent references comment k of an n-comment list may carry: absent,
\* the thread, another comment of the list, or a malformed one
ParentRefs(s, n, k) ==
    {None, T3Prefix \o s, Malformed}
        \cup {T1Prefix \o CommentId(j) : j \in (1..n) \ {k}}

RichComment(s, n, k) ==
    {[id |-> CommentId(k), parent_id |-> p, author |-> a, body |-> b] :
        p \in ParentRefs(s, n, k),
        a \in {None, OpName, OtherName},
        b \in {PlainBody, MarkBody}}

\* a reply chain: each comment is top-level or answers the one before it
\* (the first may carry a malformed reference instead), and is either an OP
\* comment with a marker or a comment without author and body
ChainComment(s, k) ==
    {[id |-> CommentId(k), parent_id |-> p, author |-> ab[1], body |-> ab[2]] :
        p \in {T3Prefix \o s}
                 \cup (IF k > 1 THEN {T1Prefix \o CommentId(k - 1)}
                       ELSE {Malformed}),
        ab \in {<<OpName, MarkBody>>, <<None, None>>}}

RECURSIVE RichLists(_, _, _)
RichLists(s, n, k) ==
    IF k = 0 THEN {<<>>}
    ELSE {Append(l, c) : l \in RichLists(s, n, k - 1), c \in RichComment(s, n, k)}

RECURSIVE ChainLists(_, _)
ChainLists(s, k) ==
    IF k = 0 THEN {<<>>}
    ELSE {Append(l, c) : l \in ChainLists(s, k - 1), c \in ChainComment(s, k)}

\* position of the comment that comment k of l answers, 0 when there is none
ParentIdx(l, k) ==
    IF \E j \in 1..Len(l) : l[k].parent_id = T1Prefix \o l[j].id
    THEN CHOOSE j \in 1..Len(l) : l[k].parent_id = T1Prefix \o l[j].id
    ELSE 0

RECURSIVE Climb(_, _, _)
Climb(l, k, steps) ==
    IF k = 0 THEN TRUE
    ELSE IF steps = 0 THEN FALSE
    ELSE Climb(l, ParentIdx(l, k), steps - 1)

\* the parent references of a comment tree have no cycle
IsForest(l) == \A k \in 1..Len(l) : Climb(l, k, Len(l))

RichForests(s) ==
    UNION {{l \in RichLists(s, n, n) : IsForest(l)} : n \in 0..MaxListLen}

\* thread datasets of k rows with distinct ids, their author column drawn
\* from the set as (missing, the removed-account sentinel, a handle)
RECURSIVE CsvsOfLen(_, _)
CsvsOfLen(k, as) ==
    IF k = 0 THEN {<<>>}
    ELSE {Append(c, [id |-> ThreadId(k), author |-> a]) :
             c \in CsvsOfLen(k - 1, as), a \in as}

\* reply chains for the first k threads of csv c, at most left comments in all
RECURSIVE Remotes(_, _, _)
Remotes(c, k, left) ==
    IF k = 0 THEN {<<>>}
    ELSE UNION {{Append(q, l) : q \in Remotes(c, k - 1, left - n),
                                l \in ChainLists(c[k].id, n)} :
                n \in 0..left}

\* one top-level OP comment with a marker under every thread of csv c
RECURSIVE OneEach(_, _)
OneEach(c, k) ==
    IF k = 0 THEN <<>>
    ELSE Append(OneEach(c, k - 1),
                <<[id |-> CommentId(1), parent_id |-> T3Prefix \o c[k].id,
                   author |-> OpName, body |-> MarkBody]>>)

RECURSIVE SiteSize(_)
SiteSize(r) == IF r = <<>> THEN 0 ELSE Len(Head(r)) + SiteSize(Tail(r))

(* ------------------------------- state --------------------------------- *)

VARIABLES
    csv,                \* the thread dataset read from submissions_csv
    remote,             \* remote[k]: the flattened comment list of thread csv[k]
    n_submissions,
    max_comments,
    pc,
    subs,               \* the filtered and capped thread dataset
    idx,                \* number of threads the scan loop has begun
    sid,
    op,
    comment_list,
    awarded_parent_ids,
    i,                  \* position of the running pass in comment_list
    rows,
    total,
    df                  \* the comment dataset written at the end

vars == <<csv, remote, n_submissions, max_comments, pc, subs, idx, sid, op,
          comment_list, awarded_parent_ids, i, rows, total, df>>

inputs == <<csv, remote, n_submissions, max_comments>>

\* reddit.submission(id=s) ... subm.comments.list()
CommentsOf(s) == remote[CHOOSE k \in 1..Len(csv) : csv[k].id = s]

\* classification: one thread of the OP with any comment forest, scanned
\* with a row budget that its longest list just fills
ThreadInputs ==
    /\ csv = <<[id |-> ThreadId(1), author |-> OpName]>>
    /\ \E l \in RichForests(ThreadId(1)) : remote = <<l>>
    /\ n_submissions = 1
    /\ max_comments = MaxListLen

\* the row budget: threads of the OP holding reply chains, all of them to be
\* scanned, under every row budget (a budget above the number of comments
\* acts as that number plus one)
RunInputs ==
    \E k \in 1..MaxThreads :
        \E c \in CsvsOfLen(k, {OpName}) :
            \E r \in Remotes(c, k, MaxSiteComments) :
                /\ csv = c
                /\ remote = r
                /\ n_submissions = k
                /\ max_comments \in 0..(SiteSize(r) + 1)

\* the filter and the thread cap: every author column, one comment under
\* each thread, every thread cap and every row budget, negative ones too (a
\* cap above the number of threads acts as that number). An author column
\* without any string is read as a column of floats, on which .str raises
\* before anything is scanned: such a dataset starts no run.
FilterInputs ==
    \E k \in 0..MaxThreads :
        \E c \in CsvsOfLen(k, {NaN, DeletedMixed, OpName}) :
            /\ k = 0 \/ \E j \in 1..k : c[j].author # NaN
            /\ csv = c
            /\ remote = OneEach(c, k)
            /\ n_submissions \in (-1)..k
            /\ max_comments \in (-1)..(k + 1)

Init ==
    /\ ThreadInputs \/ RunInputs \/ FilterInputs
    /\ pc = "read"
    /\ subs = <<>>
    /\ idx = 0
    /\ sid = None
    /\ op = None
    /\ comment_list = <<>>
    /\ awarded_parent_ids = {}
    /\ i = 0
    /\ rows = <<>>
    /\ total = 0
    /\ df = <<>>

(* ------------------------------ actions -------------------------------- *)

\* mutant: the thread cap is applied before the filter
ReadSubmissions_CapFirst ==
    /\ pc = "read"
    /\ subs' = FilterSubs(HeadRows(csv, n_submissions))
    /\ rows' = <<>>
    /\ total' = 0
    /\ idx' = 0
    /\ pc' = "scan"
    /\ UNCHANGED <<inputs, sid, op, comment_list, awarded_parent_ids, i, df>>

\* read, filter and cap the thread dataset; rows = [], total = 0
ReadSubmissions ==
    /\ pc = "read"
    /\ subs' = HeadRows(FilterSubs(csv), n_submissions)
    /\ rows' = <<>>
    /\ total' = 0
    /\ idx' = 0
    /\ pc' = "scan"
    /\ UNCHANGED <<inputs, sid, op, comment_list, awarded_parent_ids, i, df>>

\* mutant: the awarded set is created once per run, not once per thread
NextSubmission_KeepAwarded ==
    /\ pc = "scan"
    /\ idx < Len(subs)
    /\ idx' = idx + 1
    /\ sid' = subs[idx + 1].id
    /\ op' = subs[idx + 1].author
    /\ comment_list' = CommentsOf(subs[idx + 1].id)
    /\ i' = 1
    /\ pc' = "pass1"
    /\ UNCHANGED <<inputs, subs, rows, total, df, awarded_parent_ids>>

\* the scan loop takes the next thread: fetch, flatten, empty awarded set
NextSubmission ==
    /\ pc = "scan"
    /\ idx < Len(subs)
    /\ idx' = idx + 1
    /\ sid' = subs[idx + 1].id
    /\ op' = subs[idx + 1].author
    /\ comment_list' = CommentsOf(subs[idx + 1].id)
    /\ awarded_parent_ids' = {}
    /\ i' = 1
    /\ pc' = "pass1"
    /\ UNCHANGED <<inputs, subs, rows, total, df>>

\* the scan loop has no thread left
ScanExhausted ==
    /\ pc = "scan"
    /\ idx >= Len(subs)
    /\ pc' = "write"
    /\ UNCHANGED <<inputs, subs, idx, sid, op, comment_list,
                   awarded_parent_ids, i, rows, total, df>>

Pass1Step ==
    /\ pc = "pass1"
    /\ i <= Len(comment_list)
    /\ awarded_parent_ids' = Pass1Add(awarded_parent_ids, comment_list[i], op)
    /\ i' = i + 1
    /\ UNCHANGED <<inputs, pc, subs, idx, sid, op, comment_list, rows, total, df>>

\* mutant: pass 1 stops where the row budget will cut pass 2
Pass1End_AtBudget ==
    /\ pc = "pass1"
    /\ (i > Len(comment_list) \/ i > max_comments - total)
    /\ pc' = "pass2"
    /\ i' = 1
    /\ UNCHANGED <<inputs, subs, idx, sid, op, comment_list,
                   awarded_parent_ids, rows, total, df>>

\* pass 1 has run through the list: pass 2 starts at its head
Pass1End ==
    /\ pc = "pass1"
    /\ i > Len(comment_list)
    /\ pc' = "pass2"
    /\ i' = 1
    /\ UNCHANGED <<inputs, subs, idx, sid, op, comment_list,
                   awarded_parent_ids, rows, total, df>>

\* mutant: the budget test is off by one (total > max_comments)
Pass2Emit_OffByOne ==
    /\ pc = "pass2"
    /\ i <= Len(comment_list)
    /\ ~(total > max_comments)
    /\ rows' = Append(rows, RowOf(comment_list[i], sid, op, awarded_parent_ids))
    /\ total' = total + 1
    /\ i' = i + 1
    /\ UNCHANGED <<inputs, pc, subs, idx, sid, op, comment_list,
                   awarded_parent_ids, df>>

\* mutant: one pass, a row is classified from the comments up to its own
Pass2Emit_SinglePass ==
    /\ pc = "pass2"
    /\ i <= Len(comment_list)
    /\ ~(total >= max_comments)
    /\ rows' = Append(rows, RowOf(comment_list[i], sid, op,
                                  PassOne(comment_list, op, i)))
    /\ total' = total + 1
    /\ i' = i + 1
    /\ UNCHANGED <<inputs, pc, subs, idx, sid, op, comment_list,
                   awarded_parent_ids, df>>

Pass2Emit ==
    /\ pc = "pass2"
    /\ i <= Len(comment_list)
    /\ ~(total >= max_comments)
    /\ rows' = Append(rows, RowOf(comment_list[i], sid, op, awarded_parent_ids))
    /\ total' = total + 1
    /\ i' = i + 1
    /\ UNCHANGED <<inputs, pc, subs, idx, sid, op, comment_list,
                   awarded_parent_ids, df>>

\* mutant: the break rolls the rows of the cut thread back
Pass2Break_Rollback ==
    /\ pc = "pass2"
    /\ i <= Len(comment_list)
    /\ total >= max_comments
    /\ rows' = SubSeq(rows, 1, Len(rows) - (i - 1))
    /\ total' = total - (i - 1)
    /\ pc' = "check"
    /\ UNCHANGED <<inputs, subs, idx, sid, op, comment_list,
                   awarded_parent_ids, i, df>>

\* if total >= max_comments: break (inside pass 2)
Pass2Break ==
    /\ pc = "pass2"
    /\ i <= Len(comment_list)
    /\ total >= max_comments
    /\ pc' = "check"
    /\ UNCHANGED <<inputs, subs, idx, sid, op, comment_list,
                   awarded_parent_ids, i, rows, total, df>>

Pass2End ==
    /\ pc = "pass2"
    /\ i > Len(comment_list)
    /\ pc' = "check"
    /\ UNCHANGED <<inputs, subs, idx, sid, op, comment_list,
                   awarded_parent_ids, i, rows, total, df>>

\* if total >= max_comments: break (after the thread)
BudgetBreak ==
    /\ pc = "check"
    /\ total >= max_comments
    /\ pc' = "write"
    /\ UNCHANGED <<inputs, subs, idx, sid, op, comment_list,
                   awarded_parent_ids, i, rows, total, df>>

ContinueScan ==
    /\ pc = "check"
    /\ ~(total >= max_comments)
    /\ pc' = "scan"
    /\ UNCHANGED <<inputs, subs, idx, sid, op, comment_list,
                   awarded_parent_ids, i, rows, total, df>>

\* df = pd.DataFrame(rows); df.to_csv(outfile)
WriteCsv ==
    /\ pc = "write"
    /\ df' = rows
    /\ pc' = "done"
    /\ UNCHANGED <<inputs, subs, idx, sid, op, comment_list,
                   awarded_parent_ids, i, rows, total>>

Next ==
    \/ ReadSubmissions
    \/ NextSubmission
    \/ ScanExhausted
    \/ Pass1Step
    \/ Pass1End
    \/ Pass2Emit
    \/ Pass2Break
    \/ Pass2End
    \/ BudgetBreak
    \/ ContinueScan
    \/ WriteCsv

Spec == Init /\ [][Next]_vars

(* ------------------------- the vocabulary of the claims ---------------- *)

IsPrefix(s, t) == Len(s) <= Len(t) /\ SubSeq(t, 1, Len(s)) = s

Range(s) == {s[k] : k \in 1..Len(s)}

Min(a, b) == IF a < b THEN a ELSE b

\* the thread dataset row, the comment list and the OP handle of thread s
ThreadOf(s) == csv[CHOOSE k \in 1..Len(csv) : csv[k].id = s]
ListOf(s) == CommentsOf(s)
OpOf(s) == ThreadOf(s).author

\* position in its thread's list of the comment a row was made from
PosOf(r) ==
    CHOOSE k \in 1..Len(ListOf(r.post_id)) : ListOf(r.post_id)[k].id = r.comment_id

\* d is a comment of the OP o whose body contains a marker
IsAck(d, o) == d.author # None /\ d.author = o /\ has_delta(d.body)

\* the parent reference p denotes the comment with identifier x
Denotes(p, x) == p = T1Prefix \o x

\* some comment of l acknowledges the comment with identifier x
Acked(l, o, x) ==
    \E j \in 1..Len(l) : Denotes(l[j].parent_id, x) /\ IsAck(l[j], o)

\* the threads the scan loop has begun
Scanned == SubSeq(subs, 1, idx)

\* the rows of thread s emitted so far
RowsOfThread(s) == SelectSeq(rows, LAMBDA r : r.post_id = s)

\* the thread dataset rows with a usable OP handle, and the first n of them
Passing == SelectSeq(csv, LAMBDA t : t.author # NaN /\ Lower(t.author) # Deleted)
FirstPassing == SubSeq(Passing, 1, Min(n_submissions, Len(Passing)))

\* what a run without row budget emits on the same input
RECURSIVE RowsOfThreads(_)
RowsOfThreads(ts) ==
    IF ts = <<>> THEN <<>>
    ELSE ThreadRows(ListOf(Head(ts).id), Head(ts).id, Head(ts).author)
             \o RowsOfThreads(Tail(ts))

UnboundedRows == RowsOfThreads(HeadRows(FilterSubs(csv), n_submissions))

(* -------------------------------- C1 ----------------------------------- *)

\* C1: every emitted row has delta_awarded true exactly when some comment of
\* the same thread is written by the thread's OP, contains a marker and has a
\* parent reference denoting the row's comment; this holds for every thread
\* of a run, whatever the earlier threads acknowledged.
C1_DeltaIffAcknowledged ==
    \A k \in 1..Len(rows) :
        rows[k].delta_awarded
            <=> Acked(ListOf(rows[k].post_id), OpOf(rows[k].post_id),
                      rows[k].comment_id)

\* two threads hold a comment with the same identifier; the one of the
\* earlier thread is acknowledged, the one of the later thread is not
C1_Witness ==
    \E k1, k2 \in 1..Len(rows) :
        /\ k1 < k2
        /\ rows[k1].post_id # rows[k2].post_id
        /\ rows[k1].comment_id = rows[k2].comment_id
        /\ rows[k1].delta_awarded
        /\ ~rows[k2].delta_awarded

(* -------------------------------- C2 ----------------------------------- *)

\* C2 as claimed: for any row budget the dataset written has at most
\* max_comments rows and is a prefix of the rows a run without row budget
\* produces on the same input.
C2_AtMostBudgetRows ==
    pc = "done" => (Len(df) <= max_comments /\ IsPrefix(df, UnboundedRows))

\* C2 amended: the rows, and the dataset written at the end, are a prefix
\* (same rows, same values, same order) of the rows a run without row budget
\* produces on the same input; they number at most max_comments when
\* max_comments is not negative, and there is none when it is negative.
C2_PrefixOfUnbounded ==
    LET unbounded == UnboundedRows
        cap == IF max_comments >= 0 THEN max_comments ELSE 0
    IN /\ Len(rows) <= cap
       /\ IsPrefix(rows, unbounded)
       /\ pc = "done" => (Len(df) <= cap /\ IsPrefix(df, unbounded))

\* the budget cut the second thread in its middle
C2_Witness ==
    /\ pc = "done"
    /\ Len(df) = max_comments
    /\ Len(df) < Len(UnboundedRows)
    /\ Len(df) > 1
    /\ df[1].post_id # df[Len(df)].post_id
    /\ Len(RowsOfThread(df[Len(df)].post_id)) < Len(ListOf(df[Len(df)].post_id))

(* -------------------------------- C3 ----------------------------------- *)

\* C3: no thread is begun (fetched, pass 1 started) once the rows emitted
\* number at least max_comments: while pass 1 of a thread runs, the rows
\* emitted so far are below the budget.
C3_NoThreadBegunAtCap == pc = "pass1" => total < max_comments

(* -------------------------------- C4 ----------------------------------- *)

\* C4 as claimed: the threads scanned by a finished run are exactly the first
\* n_submissions threads that pass the filter.
C4_ScannedExactlyFirstN == pc = "done" => Scanned = FirstPassing

\* C4 amended: every scanned thread passes the filter; when n_submissions
\* is not negative, at most n_submissions threads are scanned, the scanned
\* threads are a prefix of the first n_submissions threads that pass the
\* filter, in dataset order, and they are all of them when the run ends with
\* the row budget not reached.
C4_ScannedPrefixOfFirstN ==
    /\ \A k \in 1..Len(Scanned) :
          Scanned[k].author # NaN /\ Lower(Scanned[k].author) # Deleted
    /\ n_submissions >= 0 =>
          /\ Len(Scanned) <= n_submissions
          /\ pc # "read" => IsPrefix(Scanned, FirstPassing)
          /\ (pc = "done" /\ total < max_comments) => Scanned = FirstPassing

\* a thread without usable OP handle comes first, the thread after it is
\* scanned although the cap is one thread
C4_Witness ==
    /\ pc = "done"
    /\ Len(csv) > 1
    /\ ~UsableAuthor(csv[1].author)
    /\ n_submissions = 1
    /\ Scanned = <<csv[2]>>
    /\ total < max_comments

(* -------------------------------- C5 ----------------------------------- *)

\* every comment of every scanned thread has its row
AllEmitted ==
    \A k \in 1..Len(Scanned) :
        \A j \in 1..Len(ListOf(Scanned[k].id)) :
            \E r \in Range(rows) :
                /\ r.post_id = Scanned[k].id
                /\ r.comment_id = ListOf(Scanned[k].id)[j].id

\* C5: a row has is_op true exactly when its comment's author is present and
\* equals the thread's OP handle, case-sensitively. A comment without author
\* is emitted like any other, with is_op false, and with delta_awarded true
\* when an OP comment with a marker answers it; a comment that is an OP
\* acknowledgment and the target of another has is_op and delta_awarded true.
C5_IsOpAndAbsentAuthor ==
    /\ \A k \in 1..Len(rows) :
          LET r == rows[k]
              l == ListOf(r.post_id)
              o == OpOf(r.post_id)
              c == l[PosOf(r)]
          IN /\ r.is_op <=> (c.author # None /\ c.author = o)
             /\ c.author = None => ~r.is_op
             /\ (c.author = None /\ Acked(l, o, c.id)) => r.delta_awarded
             /\ (IsAck(c, o) /\ Acked(l, o, c.id))
                    => (r.is_op /\ r.delta_awarded)
    /\ (pc = "done" /\ total < max_comments) => AllEmitted

\* the row of a comment without author that the OP acknowledged
C5_Witness ==
    \E k \in 1..Len(rows) :
        /\ rows[k].author = None
        /\ Acked(ListOf(rows[k].post_id), OpOf(rows[k].post_id), rows[k].comment_id)
        /\ rows[k].delta_awarded
        /\ ~rows[k].is_op

(* -------------------------------- C6 ----------------------------------- *)

\* the list l with the author and the body of its k-th comment replaced
WithAuthorBody(l, k, a, b) == [l EXCEPT ![k].author = a, ![k].body = b]

\* C6: the row pass 2 has just appended (every row is, once) has the
\* delta_awarded that its comment gets in the run on the list that differs
\* in that comment's author and body only, whatever they are replaced by; an
\* OP comment with a marker that no other comment answers has delta_awarded
\* false.
C6_IndependentOfOwnFields ==
    (pc = "pass2" /\ i > 1) =>
        LET r == rows[Len(rows)]
            l == ListOf(r.post_id)
            o == OpOf(r.post_id)
            n == PosOf(r)
        IN /\ \A a \in {None, OpName, OtherName} :
                 \A b \in {None, PlainBody, MarkBody} :
                     LET l2 == WithAuthorBody(l, n, a, b)
                     IN (l2[n].id \in PassOne(l2, o, Len(l2)))
                            = r.delta_awarded
           /\ (IsAck(l[n], o)
                  /\ ~\E j \in (1..Len(l)) \ {n} : Denotes(l[j].parent_id, l[n].id))
                  => ~r.delta_awarded

\* the row of an OP comment with a marker that answers another comment: the
\* comment it answers is awarded, the OP comment itself is not
C6_Witness ==
    \E k1, k2 \in 1..Len(rows) :
        /\ rows[k1].post_id = rows[k2].post_id
        /\ IsAck(ListOf(rows[k1].post_id)[PosOf(rows[k1])], OpOf(rows[k1].post_id))
        /\ rows[k1].parent_comment_id = rows[k2].comment_id
        /\ ~rows[k1].delta_awarded
        /\ rows[k2].delta_awarded

(* -------------------------------- C7 ----------------------------------- *)

\* the parent reference p of a comment of thread s denotes the thread, is
\* absent or empty, or has neither the comment nor the thread shape
RootRef(p, s) == p = T3Prefix \o s
NoRef(p) == p = None \/ p = <<>>
MalformedRef(p) ==
    ~NoRef(p) /\ ~StartsWith(p, T1Prefix) /\ ~StartsWith(p, T3Prefix)
NonPropagating(p, s) == RootRef(p, s) \/ NoRef(p) \/ MalformedRef(p)

\* the list l without its k-th comment
Without(l, k) == SubSeq(l, 1, k - 1) \o SubSeq(l, k + 1, Len(l))

\* every other comment of a thread has the delta_awarded it has in the run
\* on the list without the OP marker comment whose parent reference does
\* not propagate
C7_RestClassified ==
    \A k \in 1..Len(rows) :
        LET r == rows[k]
            l == ListOf(r.post_id)
            o == OpOf(r.post_id)
        IN \A m \in (1..Len(l)) \ {PosOf(r)} :
               (IsAck(l[m], o) /\ NonPropagating(l[m].parent_id, r.post_id))
                   => r.delta_awarded
                          = (r.comment_id \in PassOne(Without(l, m), o, Len(l) - 1))

\* C7: a pass 1 step on an OP marker comment whose parent reference denotes
\* the thread, is absent or is malformed leaves the awarded set as it is;
\* the other comments of the thread are classified as without that comment,
\* and the run goes on to emit every comment the row budget allows.
C7_NoPropagationNoAbort ==
    /\ [][(pc = "pass1" /\ i <= Len(comment_list)
             /\ IsAck(comment_list[i], op)
             /\ NonPropagating(comment_list[i].parent_id, sid))
            => awarded_parent_ids' = awarded_parent_ids]_vars
    /\ [](C7_RestClassified
            /\ ((pc = "done" /\ total < max_comments) => AllEmitted))

\* an OP marker comment with a malformed parent reference comes first in
\* its thread; a later comment of the thread, acknowledged by a third one,
\* has its row with delta_awarded true
C7_Witness ==
    /\ pc = "done"
    /\ \E k \in 1..Len(df) :
          LET l == ListOf(df[k].post_id)
          IN /\ PosOf(df[k]) > 1
             /\ IsAck(l[1], OpOf(df[k].post_id))
             /\ MalformedRef(l[1].parent_id)
             /\ df[k].delta_awarded

(* -------------------------------- C8 ----------------------------------- *)

\* every OP marker comment of the current thread that answers a comment has
\* left that comment's identifier in the awarded set
Pass1Complete ==
    \A j \in 1..Len(comment_list) :
        (IsAck(comment_list[j], op)
            /\ StartsWith(OrEmpty(comment_list[j].parent_id), T1Prefix))
            => \E x \in awarded_parent_ids :
                   Denotes(comment_list[j].parent_id, x)

\* C8: a row is appended only in pass 2, after pass 1 has seen every comment
\* of the thread; so a row has delta_awarded true also when the OP comment
\* acknowledging it lies behind the point where the row budget cuts pass 2
\* and gets no row itself.
C8_ClassifiedBeforeEmission ==
    /\ [][rows' # rows => (pc = "pass2" /\ pc' = "pass2" /\ Pass1Complete)]_vars
    /\ [](\A k \in 1..Len(rows) :
             LET l == ListOf(rows[k].post_id)
                 cut == Len(RowsOfThread(rows[k].post_id))
             IN (\E j \in (cut + 1)..Len(l) :
                     /\ Denotes(l[j].parent_id, rows[k].comment_id)
                     /\ IsAck(l[j], OpOf(rows[k].post_id)))
                    => rows[k].delta_awarded)

\* the run has ended on the budget in the middle of a thread; an emitted
\* comment is awarded by an OP comment that has no row
C8_Witness ==
    /\ pc = "done"
    /\ \E k \in 1..Len(df) :
          LET l == ListOf(df[k].post_id)
          IN /\ df[k].delta_awarded
             /\ \A j \in 1..Len(l) :
                   (Denotes(l[j].parent_id, df[k].comment_id)
                       /\ IsAck(l[j], OpOf(df[k].post_id)))
                       => ~\E h \in 1..Len(df) :
                              /\ df[h].post_id = df[k].post_id
                              /\ df[h].comment_id = l[j].id

(* -------------------------------- C9 ----------------------------------- *)

\* the permutations of 1..n
Perms(n) == {f \in [1..n -> 1..n] : \A a, b \in 1..n : f[a] = f[b] => a = b}

\* the list l read in the order f
Reordered(l, f) == [k \in 1..Len(l) |-> l[f[k]]]

\* C9: when the run has ended, the rows of every thread that the row budget
\* did not cut are the records that the two passes yield on any reordering
\* of its list, in that order, so the same set of records; on the list
\* itself they are the same sequence (a second run yields identical records).
C9_OrderIndependent ==
    pc = "done" =>
        \A k \in 1..Len(Scanned) :
            LET s == Scanned[k].id
                l == ListOf(s)
                out == RowsOfThread(s)
            IN Len(out) = Len(l)
                   => /\ out = ThreadRows(l, s, Scanned[k].author)
                      /\ \A f \in Perms(Len(l)) :
                            LET again == ThreadRows(Reordered(l, f), s,
                                                    Scanned[k].author)
                            IN /\ again = [j \in 1..Len(l) |-> out[f[j]]]
                               /\ Range(again) = Range(out)

\* the acknowledging OP comment comes before the comment it answers in the
\* flattened list, and that comment's row has delta_awarded true
C9_Witness ==
    /\ pc = "done"
    /\ \E k \in 1..Len(df) :
          LET l == ListOf(df[k].post_id)
          IN /\ PosOf(df[k]) > 1
             /\ IsAck(l[1], OpOf(df[k].post_id))
             /\ Denotes(l[1].parent_id, df[k].comment_id)
             /\ df[k].delta_awarded

(* -------------------------------- C10 ---------------------------------- *)

RECURSIVE CommentsIn(_)
CommentsIn(ts) ==
    IF ts = <<>> THEN 0 ELSE Len(ListOf(Head(ts).id)) + CommentsIn(Tail(ts))

\* C10: total counts the rows at every point of the run; rows are only ever
\* appended; for max_comments >= 0 the rows written number min(max_comments,
\* comments of the threads to scan), which is also min(max_comments, comments
\* of the threads scanned); every scanned thread but the last has all its
\* rows.
C10_NoRowDropped ==
    /\ [][IsPrefix(rows, rows')]_vars
    /\ [](/\ total = Len(rows)
          /\ pc = "done" =>
                /\ df = rows
                /\ max_comments >= 0 =>
                      /\ Len(df) = Min(max_comments, CommentsIn(subs))
                      /\ Len(df) = Min(max_comments, CommentsIn(Scanned))
          /\ \A k \in 1..(Len(Scanned) - 1) :
                Len(RowsOfThread(Scanned[k].id)) = Len(ListOf(Scanned[k].id)))

\* two threads scanned: the first has all its rows, the budget cut the
\* second after its first row
C10_Witness ==
    /\ pc = "done"
    /\ Len(Scanned) = 2
    /\ Len(ListOf(Scanned[1].id)) > 0
    /\ Len(RowsOfThread(Scanned[1].id)) = Len(ListOf(Scanned[1].id))
    /\ Len(RowsOfThread(Scanned[2].id)) > 0
    /\ Len(RowsOfThread(Scanned[2].id)) < Len(ListOf(Scanned[2].id))

====
